---- MODULE Spec2Model ----
(***************************************************************************)
(* Chopsticks solver: the move model (models.py), the graph builder and    *)
(* the retrograde classifier (game_theory.py).                             *)
(*                                                                         *)
(* Hands are pairs <<h0, h1>>; Python index i is TLA+ index i + 1.         *)
(* A state is [curr_player, next_player]; the rule parameters travel in a  *)
(* separate record, as in the calls move.apply(state, rules).              *)
(***************************************************************************)
EXTENDS Integers, Sequences, FiniteSets, TLC

\* ------------------------------------------------------------------ bounds
\* Largest threshold of a rule set in the move-level specification.
MoveMaxThreshold == 5
\* Largest finger count of an initial hand in the move-level specification.
MoveMaxInitHand == 4
\* Largest threshold of a rule set in the build-and-classify specification.
MaxThreshold == 3
\* Largest finger count of an initial hand in the build-and-classify
\* specification.
MaxInitHand == 2
\* Depth of nested build_tree calls at which the interpreter raises
\* RecursionError.  A game whose hands stay below a threshold of at most 3
\* has fewer than 40 non-terminal states, so it never nests this deep.
RecursionLimit == 40
\* Number of Standard nodes in the node sets of the classifier-level
\* specification.
MaxNodes == 2
\* Largest threshold and largest finger count passed to the constructor in
\* the construction-level specification.
ConfigMaxThreshold == 2
ConfigMaxHand == 2
\* Number of builds one process makes in the repeated-build specification.
MaxRuns == 2

\* ---------------------------------------------------------- status codes
UNKNOWN == 0
WIN == 1
LOSE == 2
DRAW == 3

\* ------------------------------------------------------------- rule sets
SplitRules == {"restrictive", "free", "change", "suicide"}

RuleSets(maxT) ==
    [threshold : 1..maxT, modular : BOOLEAN, split_rule : SplitRules]

\* Game.__init__ (the rule part): the three parameters are stored as given.
GameRules(threshold, modular, split_rule) ==
    [threshold |-> threshold, modular |-> modular, split_rule |-> split_rule]

\* --------------------------------------------------------------- players
\* Player.__init__ storing the hands in the order given.
Player_asGiven(hands) == hands

\* Player.__init__: hands are stored sorted, higher number first.
Player(hands) ==
    IF hands[1] >= hands[2] THEN <<hands[1], hands[2]>>
                            ELSE <<hands[2], hands[1]>>

\* Player.is_dead
is_dead(p) == p = <<0, 0>>

\* Game.__init__ (the state part: the two players)
State(curr, next) == [curr_player |-> curr, next_player |-> next]

\* is_terminal holding only when both players are dead.
is_terminal_bothDead(s) == is_dead(s.curr_player) /\ is_dead(s.next_player)

\* Game.is_terminal
is_terminal(s) == is_dead(s.curr_player) \/ is_dead(s.next_player)

\* Game.winner
winner(s) ==
    IF is_dead(s.next_player) THEN "curr_player"
    ELSE IF is_dead(s.curr_player) THEN "next_player"
    ELSE "None"

sum(h) == h[1] + h[2]

\* ----------------------------------------------------------------- moves
\* Move.attack, Move.split, Move.pass_move
MoveAttack(i, j) == [move_type |-> "attack", source_hand |-> i, target_hand |-> j]
MoveSplit(r)     == [move_type |-> "split", result_hands |-> r]
MovePass         == [move_type |-> "pass"]

\* The outcome of Move.apply: a new state, or ValueError.
Ok(s)      == [ok |-> TRUE, state |-> s]
ValueError == [ok |-> FALSE]
\* The remainder by a threshold of 0 raises ZeroDivisionError, not ValueError.
ZeroDivisionError == [ok |-> FALSE, error |-> "ZeroDivisionError"]

\* ThresholdRule with the standard rule killing a hand only above threshold.
ThresholdRule_above(v, rules) ==
    IF rules.modular
    THEN IF v = rules.threshold THEN 0
         ELSE IF v > rules.threshold THEN v % rules.threshold
         ELSE v
    ELSE IF v > rules.threshold THEN 0 ELSE v

\* Move.apply, attack branch: the value the targeted hand takes.
ThresholdRule(v, rules) ==
    IF rules.modular
    THEN IF v = rules.threshold THEN 0
         ELSE IF v > rules.threshold THEN v % rules.threshold
         ELSE v
    ELSE IF v >= rules.threshold THEN 0 ELSE v

\* ApplyAttack without the check that the attacking hand is alive.
ApplyAttack_deadSource(move, s, rules) ==
    LET me  == s.curr_player
        opp == s.next_player
        src == move.source_hand
        tgt == move.target_hand
    IN  IF src < 0 \/ src > 1 THEN ValueError
        ELSE IF tgt < 0 \/ tgt > 1 THEN ValueError
        ELSE IF opp[tgt + 1] = 0 THEN ValueError
        ELSE IF rules.modular /\ rules.threshold = 0 THEN ZeroDivisionError
        ELSE LET v == ThresholdRule(opp[tgt + 1] + me[src + 1], rules)
                 new_opp_hands == [opp EXCEPT ![tgt + 1] = v]
             IN  Ok(State(Player(new_opp_hands), Player(me)))

\* ApplyAttack returning the players in their previous roles.
ApplyAttack_noSwap(move, s, rules) ==
    LET me  == s.curr_player
        opp == s.next_player
        src == move.source_hand
        tgt == move.target_hand
    IN  IF src < 0 \/ src > 1 THEN ValueError
        ELSE IF tgt < 0 \/ tgt > 1 THEN ValueError
        ELSE IF me[src + 1] = 0 THEN ValueError
        ELSE IF opp[tgt + 1] = 0 THEN ValueError
        ELSE IF rules.modular /\ rules.threshold = 0 THEN ZeroDivisionError
        ELSE LET v == ThresholdRule(opp[tgt + 1] + me[src + 1], rules)
                 new_opp_hands == [opp EXCEPT ![tgt + 1] = v]
             IN  Ok(State(Player(me), Player(new_opp_hands)))

\* Move.apply, attack branch.
ApplyAttack(move, s, rules) ==
    LET me  == s.curr_player
        opp == s.next_player
        src == move.source_hand
        tgt == move.target_hand
    IN  IF src < 0 \/ src > 1 THEN ValueError
        ELSE IF tgt < 0 \/ tgt > 1 THEN ValueError
        ELSE IF me[src + 1] = 0 THEN ValueError
        ELSE IF opp[tgt + 1] = 0 THEN ValueError
        ELSE IF rules.modular /\ rules.threshold = 0 THEN ZeroDivisionError
        ELSE LET v == ThresholdRule(opp[tgt + 1] + me[src + 1], rules)
                 new_opp_hands == [opp EXCEPT ![tgt + 1] = v]
             IN  Ok(State(Player(new_opp_hands), Player(me)))

\* SplitRuleAllows with 'free' taken to allow any split.
SplitRuleAllows_anyFree(move, me, rules) ==
    CASE rules.split_rule = "change"      -> Player(move.result_hands) # me
      [] rules.split_rule = "restrictive" -> me \in {<<4, 0>>, <<2, 0>>}
      [] rules.split_rule = "suicide"     -> TRUE
      [] rules.split_rule = "free"        -> TRUE
      [] OTHER                            -> TRUE

\* Move.apply, split branch: the split-rule constraint.
SplitRuleAllows(move, me, rules) ==
    CASE rules.split_rule = "change"      -> Player(move.result_hands) # me
      [] rules.split_rule = "restrictive" -> me \in {<<4, 0>>, <<2, 0>>}
      [] rules.split_rule = "suicide"     -> TRUE
      [] rules.split_rule = "free"        -> Player(move.result_hands) # me
      [] OTHER                            -> TRUE

\* Move.apply, split branch.
ApplySplit(move, s, rules) ==
    LET me  == s.curr_player
        opp == s.next_player
    IN  IF sum(me) # sum(move.result_hands) THEN ValueError
        ELSE IF ~SplitRuleAllows(move, me, rules) THEN ValueError
        ELSE Ok(State(Player(opp), Player(move.result_hands)))

\* ApplyPass returning the players in their previous roles.
ApplyPass_noSwap(s) == Ok(State(Player(s.curr_player), Player(s.next_player)))

\* Move.apply, pass branch.
ApplyPass(s) == Ok(State(Player(s.next_player), Player(s.curr_player)))

\* Move.apply
Apply(move, s, rules) ==
    CASE move.move_type = "attack" -> ApplyAttack(move, s, rules)
      [] move.move_type = "split"  -> ApplySplit(move, s, rules)
      [] move.move_type = "pass"   -> ApplyPass(s)
      [] OTHER                     -> ValueError

\* ------------------------------------------------------- move generation
RECURSIVE SplitMoves(_, _, _)
\* generate_possible_moves, the loop "for i in range(total_fingers + 1)".
SplitMoves(i, total_fingers, me) ==
    IF i > total_fingers THEN <<>>
    ELSE LET j == total_fingers - i
             rest == SplitMoves(i + 1, total_fingers, me)
         IN  IF i <= j /\ i # me[1]
             THEN <<MoveSplit(<<j, i>>)>> \o rest
             ELSE rest

\* generate_possible_moves
generate_possible_moves(s, rules) ==
    LET me == s.curr_player
        attacks == <<MoveAttack(0, 0), MoveAttack(0, 1),
                     MoveAttack(1, 0), MoveAttack(1, 1)>>
        splits ==
            IF rules.split_rule = "restrictive"
            THEN IF me \in {<<4, 0>>, <<2, 0>>}
                 THEN LET k == me[1] \div 2 IN <<MoveSplit(<<k, k>>)>>
                 ELSE <<>>
            ELSE SplitMoves(0, sum(me), me)
    IN  attacks \o splits

RECURSIVE LegalPairs(_, _, _, _)
\* generate_moves, first loop: keep the moves whose apply does not raise.
LegalPairs(moves, k, s, rules) ==
    IF k > Len(moves) THEN <<>>
    ELSE LET r == Apply(moves[k], s, rules)
             rest == LegalPairs(moves, k + 1, s, rules)
         IN  IF r.ok THEN <<[move |-> moves[k], state |-> r.state]>> \o rest
             ELSE rest

\* UniquePairs keeping every pair.
UniquePairs_keepAll(pairs, k, seen_states) == SubSeq(pairs, k, Len(pairs))

RECURSIVE UniquePairs(_, _, _)
\* generate_moves, second loop: keep the first move for each next state.
UniquePairs(pairs, k, seen_states) ==
    IF k > Len(pairs) THEN <<>>
    ELSE IF pairs[k].state \notin seen_states
         THEN <<pairs[k]>> \o UniquePairs(pairs, k + 1, seen_states \cup {pairs[k].state})
         ELSE UniquePairs(pairs, k + 1, seen_states)

\* generate_moves
generate_moves(s, rules) ==
    UniquePairs(LegalPairs(generate_possible_moves(s, rules), 1, s, rules), 1, {})

Range(f) == {f[x] : x \in DOMAIN f}

\* ============================================================ variables
VARIABLES
    rules,              \* the rule set in effect (threshold, modular, split_rule)
    game,               \* move level: the state Move.apply is called on
    last,               \* move level: the call of Move.apply and its outcome
    root_state,         \* main: the starting state
    phase,              \* main: where the run stands
    nodes,              \* the nodes created so far, in creation order
    state_to_node,      \* game_theory.state_to_node: state -> Standard node
    stack,              \* the active build_tree calls, innermost last
    root_node,          \* main: the node build_tree returned (0: none yet)
    run,                \* how many builds this process has started or is to start
    all_nodes,          \* main: the set collect_all_nodes returned
    order,              \* iteration order of the node sets in this run
    status,             \* classify_positions_graph: status
    remaining_children, \* classify_positions_graph: remaining_children
    q                   \* classify_positions_graph: q

bvars == <<root_state, nodes, state_to_node, stack, root_node, run>>
cvars == <<all_nodes, order, status, remaining_children, q>>
vars == <<rules, game, last, root_state, phase, nodes, state_to_node, stack,
          root_node, run, all_nodes, order, status, remaining_children, q>>

\* Hands an initial state may hold under a rule set: 0 .. threshold - 1.
InitHands(r, maxHand) ==
    {h \in (0..maxHand) \X (0..maxHand) :
        h[1] >= h[2] /\ h[1] < r.threshold /\ h[2] < r.threshold}

NoCall == [called |-> FALSE]
NoState == State(<<0, 0>>, <<0, 0>>)
Empty == [x \in {} |-> 0]

\* The build and classify variables before anything ran.
BuildIdle ==
    /\ nodes = <<>>
    /\ state_to_node = Empty
    /\ stack = <<>>
    /\ root_node = 0
    /\ run = 1
ClassifyIdle ==
    /\ all_nodes = {}
    /\ order = "asc"
    /\ status = Empty
    /\ remaining_children = Empty
    /\ q = <<>>

\* ================================================= move-level specification
\* The split results a caller tries: they conserve the mover's total or
\* exceed it by one.
SplitCandidates(me) ==
    {h \in (0..sum(me) + 1) \X (0..sum(me) + 1) : h[1] + h[2] \in {sum(me), sum(me) + 1}}

MoveInit ==
    /\ rules \in RuleSets(MoveMaxThreshold)
    /\ \E c \in InitHands(rules, MoveMaxInitHand), n \in InitHands(rules, MoveMaxInitHand) :
          game = State(c, n)
    /\ last = NoCall
    /\ root_state = NoState
    /\ phase = "move"
    /\ BuildIdle
    /\ ClassifyIdle

\* One call move.apply(game, rules); a ValueError produces no state.
Call(move) ==
    LET r == Apply(move, game, rules)
    IN  /\ phase = "move"
        /\ ~last.called
        /\ last' = [called |-> TRUE, move |-> move, pre |-> game, ok |-> r.ok]
        /\ game' = IF r.ok THEN r.state ELSE game
        /\ UNCHANGED <<rules, root_state, phase, bvars, cvars>>

\* Move.apply on an attack, any pair of indices a caller may pass.
Attack == \E i \in -1..2, j \in -1..2 : Call(MoveAttack(i, j))

\* Move.apply on a split.
Split == \E h \in SplitCandidates(game.curr_player) : Call(MoveSplit(h))

\* Move.apply on a pass.
Pass == Call(MovePass)

MoveNext == Attack \/ Split \/ Pass

MoveSpec == MoveInit /\ [][MoveNext]_vars

\* ========================================= construction-level specification
\* The parameters a caller passes to Game(...): thresholds from 0 up, the
\* four split-rule tags and one tag that is none of them.
ConfigThresholds == 0..ConfigMaxThreshold
ConfigTags == SplitRules \cup {"bogus"}
ConfigHands == {h \in (0..ConfigMaxHand) \X (0..ConfigMaxHand) : h[1] >= h[2]}
NoRules == [constructed |-> FALSE]

ConfigInit ==
    /\ rules = NoRules
    /\ game = NoState
    /\ last = NoCall
    /\ root_state = NoState
    /\ phase = "config"
    /\ BuildIdle
    /\ ClassifyIdle

\* Game(Player(c), Player(n), threshold, modular, split_rule)
Construct ==
    /\ phase = "config"
    /\ \E th \in ConfigThresholds, m \in BOOLEAN, tag \in ConfigTags,
          c \in ConfigHands, n \in ConfigHands :
          /\ rules' = GameRules(th, m, tag)
          /\ game' = State(Player(c), Player(n))
    /\ phase' = "move"
    /\ UNCHANGED <<last, root_state, bvars, cvars>>

ConfigNext == Construct \/ Attack \/ Split \/ Pass

ConfigSpec == ConfigInit /\ [][ConfigNext]_vars

\* ======================================== build-and-classify specification
\* models.StandardNode, models.WinNode, models.LoopNode; a node is named by
\* its position in nodes (object identity).
StandardNode(s) == [kind |-> "Standard", state |-> s, transitions |-> <<>>]
WinNode(s, w)   == [kind |-> "Win", state |-> s, winner |-> w]
LoopNode(n)     == [kind |-> "Loop", points_to |-> n]

\* StandardNode.add_transition
add_transition(ns, n, move, next_node) ==
    [ns EXCEPT ![n].transitions = Append(@, [move |-> move, node |-> next_node])]

\* main: rules and root_state, before build_tree is called.
Init ==
    /\ rules \in RuleSets(MaxThreshold)
    /\ \E c \in InitHands(rules, MaxInitHand), n \in InitHands(rules, MaxInitHand) :
          root_state = State(c, n)
    /\ game = NoState
    /\ last = NoCall
    /\ phase = "start"
    /\ BuildIdle
    /\ ClassifyIdle

\* The innermost active build_tree call and the pair its loop stands at.
Top == stack[Len(stack)]
TopPairs == generate_moves(nodes[Top.node].state, rules)
TopPair == TopPairs[Top.k]
NewId == Len(nodes) + 1

\* build_tree(root_state, rules) as called by main: the top-level call up
\* to its first recursive call or its return.
BuildRoot ==
    /\ phase = "start"
    /\ IF root_state \in DOMAIN state_to_node
       THEN /\ nodes' = Append(nodes, LoopNode(state_to_node[root_state]))
            /\ root_node' = NewId
            /\ phase' = "built"
            /\ UNCHANGED <<state_to_node, stack>>
       ELSE IF is_terminal(root_state)
       THEN /\ nodes' = Append(nodes, WinNode(root_state, winner(root_state)))
            /\ root_node' = NewId
            /\ phase' = "built"
            /\ UNCHANGED <<state_to_node, stack>>
       ELSE /\ nodes' = Append(nodes, StandardNode(root_state))
            /\ state_to_node' = (root_state :> NewId) @@ state_to_node
            /\ stack' = <<[node |-> NewId, k |-> 1]>>
            /\ phase' = "building"
            /\ UNCHANGED root_node
    /\ UNCHANGED <<rules, game, last, root_state, run, cvars>>

\* BuildLoop attaching the registered node itself instead of a LoopNode.
BuildLoop_direct ==
    /\ phase = "building"
    /\ Top.k <= Len(TopPairs)
    /\ TopPair.state \in DOMAIN state_to_node
    /\ nodes' = add_transition(nodes, Top.node, TopPair.move, state_to_node[TopPair.state])
    /\ stack' = [stack EXCEPT ![Len(stack)].k = @ + 1]
    /\ UNCHANGED <<rules, game, last, root_state, run, phase, state_to_node, root_node, cvars>>

\* build_tree on a next state that already has a node: a LoopNode, attached
\* to the caller's node.
BuildLoop ==
    /\ phase = "building"
    /\ Top.k <= Len(TopPairs)
    /\ TopPair.state \in DOMAIN state_to_node
    /\ nodes' = add_transition(Append(nodes, LoopNode(state_to_node[TopPair.state])),
                               Top.node, TopPair.move, NewId)
    /\ stack' = [stack EXCEPT ![Len(stack)].k = @ + 1]
    /\ UNCHANGED <<rules, game, last, root_state, run, phase, state_to_node, root_node, cvars>>

\* build_tree on a terminal next state: a WinNode, attached to the caller's
\* node.
BuildWin ==
    /\ phase = "building"
    /\ Top.k <= Len(TopPairs)
    /\ TopPair.state \notin DOMAIN state_to_node
    /\ is_terminal(TopPair.state)
    /\ nodes' = add_transition(Append(nodes, WinNode(TopPair.state, winner(TopPair.state))),
                               Top.node, TopPair.move, NewId)
    /\ stack' = [stack EXCEPT ![Len(stack)].k = @ + 1]
    /\ UNCHANGED <<rules, game, last, root_state, run, phase, state_to_node, root_node, cvars>>

\* BuildStandard without the registration of the new node.
BuildStandard_unregistered ==
    /\ phase = "building"
    /\ Top.k <= Len(TopPairs)
    /\ TopPair.state \notin DOMAIN state_to_node
    /\ ~is_terminal(TopPair.state)
    /\ Len(stack) < RecursionLimit
    /\ nodes' = Append(nodes, StandardNode(TopPair.state))
    /\ stack' = Append(stack, [node |-> NewId, k |-> 1])
    /\ UNCHANGED <<rules, game, last, root_state, run, phase, state_to_node, root_node, cvars>>

\* build_tree on a new non-terminal next state: a StandardNode, registered
\* before its moves are explored.
BuildStandard ==
    /\ phase = "building"
    /\ Top.k <= Len(TopPairs)
    /\ TopPair.state \notin DOMAIN state_to_node
    /\ ~is_terminal(TopPair.state)
    /\ Len(stack) < RecursionLimit
    /\ nodes' = Append(nodes, StandardNode(TopPair.state))
    /\ state_to_node' = (TopPair.state :> NewId) @@ state_to_node
    /\ stack' = Append(stack, [node |-> NewId, k |-> 1])
    /\ UNCHANGED <<rules, game, last, root_state, run, phase, root_node, cvars>>

\* The same call when the calls are nested as deep as the interpreter
\* allows: RecursionError unwinds every build_tree call and main.
BuildRecursionError ==
    /\ phase = "building"
    /\ Top.k <= Len(TopPairs)
    /\ TopPair.state \notin DOMAIN state_to_node
    /\ ~is_terminal(TopPair.state)
    /\ Len(stack) >= RecursionLimit
    /\ phase' = "RecursionError"
    /\ stack' = <<>>
    /\ UNCHANGED <<rules, game, last, root_state, run, nodes, state_to_node, root_node, cvars>>

\* build_tree returns its StandardNode: the caller attaches it, or main
\* receives the root.
BuildReturn ==
    /\ phase = "building"
    /\ Top.k > Len(TopPairs)
    /\ IF Len(stack) = 1
       THEN /\ root_node' = Top.node
            /\ phase' = "built"
            /\ stack' = <<>>
            /\ UNCHANGED nodes
       ELSE LET caller == stack[Len(stack) - 1]
                pair == generate_moves(nodes[caller.node].state, rules)[caller.k]
            IN  /\ nodes' = add_transition(nodes, caller.node, pair.move, Top.node)
                /\ stack' = [SubSeq(stack, 1, Len(stack) - 1)
                                EXCEPT ![Len(stack) - 1].k = @ + 1]
                /\ UNCHANGED <<root_node, phase>>
    /\ UNCHANGED <<rules, game, last, root_state, run, state_to_node, cvars>>

Build == BuildRoot \/ BuildLoop \/ BuildWin \/ BuildStandard
            \/ BuildRecursionError \/ BuildReturn

\* ------------------------------------------------------ collect_all_nodes
RECURSIVE collect_all_nodes(_, _)
RECURSIVE CollectChildren(_, _, _)
\* collect_all_nodes, the loop over root_node.transitions.
CollectChildren(ts, k, visited) ==
    IF k > Len(ts) THEN visited
    ELSE CollectChildren(ts, k + 1, collect_all_nodes(ts[k].node, visited))

\* collect_all_nodes
collect_all_nodes(n, visited) ==
    IF n \in visited THEN visited
    ELSE IF nodes[n].kind = "Standard"
         THEN CollectChildren(nodes[n].transitions, 1, visited \cup {n})
         ELSE visited \cup {n}

\* main: all_nodes = collect_all_nodes(root_node)
Collect ==
    /\ phase = "built"
    /\ all_nodes' = collect_all_nodes(root_node, {})
    /\ phase' = "collected"
    /\ UNCHANGED <<rules, game, last, root_state, bvars, order, status,
                   remaining_children, q>>

\* ----------------------------------------------- classify_positions_graph
isStandard(n) == nodes[n].kind = "Standard"
isWin(n)      == nodes[n].kind = "Win"
isLoop(n)     == nodes[n].kind = "Loop"

\* Target without resolving LoopNodes.
Target_unresolved(n) == n

\* "next_node.points_to if isinstance(next_node, LoopNode) else next_node"
Target(n) == IF isLoop(n) THEN nodes[n].points_to ELSE n

\* The targets of a StandardNode's transitions, in order.
Children(n) == [k \in 1..Len(nodes[n].transitions) |-> Target(nodes[n].transitions[k].node)]

\* classify_positions_graph: parents[target]
parents(target) ==
    {n \in all_nodes : isStandard(n) /\ target \in Range(Children(n))}

RECURSIVE Ordered(_, _)
\* The order in which a loop runs over a set of nodes: creation order or
\* its reverse.
Ordered(S, ord) ==
    IF S = {} THEN <<>>
    ELSE LET n == IF ord = "asc" THEN CHOOSE x \in S : \A y \in S : x <= y
                                 ELSE CHOOSE x \in S : \A y \in S : x >= y
         IN  <<n>> \o Ordered(S \ {n}, ord)

\* child_count that counts only the children that are StandardNodes
\* themselves, not those behind a LoopNode.
child_count_direct(n) ==
    Cardinality({k \in DOMAIN nodes[n].transitions :
                    isStandard(nodes[n].transitions[k].node)})

\* classify_positions_graph: the child count of a StandardNode.
child_count(n) ==
    Cardinality({k \in DOMAIN Children(n) : isStandard(Children(n)[k])})

\* isSeed without the WinNodes.
isSeed_noWin(n) == isStandard(n) /\ nodes[n].transitions = <<>>

\* classify_positions_graph: the nodes that start as LOSE.
isSeed(n) == isWin(n) \/ (isStandard(n) /\ nodes[n].transitions = <<>>)

\* classify_positions_graph up to the backward induction loop.
ClassifyInit ==
    /\ phase = "collected"
    /\ \E ord \in {"asc", "desc"} :
          /\ order' = ord
          /\ q' = Ordered({n \in all_nodes : isSeed(n)}, ord)
    /\ status' = [n \in {m \in all_nodes : isStandard(m) \/ isWin(m)} |->
                     IF isSeed(n) THEN LOSE ELSE UNKNOWN]
    /\ remaining_children' = [n \in {m \in all_nodes : isStandard(m)} |-> child_count(n)]
    /\ phase' = "classifying"
    /\ UNCHANGED <<rules, game, last, root_state, bvars, all_nodes>>

RECURSIVE Propagate_zeroWins(_, _, _, _)
\* Propagate with a parent whose counter reaches zero marked WIN.
Propagate_zeroWins(ps, k, st, acc) ==
    IF k > Len(ps) THEN acc
    ELSE LET parent == ps[k]
         IN  IF acc.status[parent] # UNKNOWN THEN Propagate_zeroWins(ps, k + 1, st, acc)
             ELSE IF st = LOSE
             THEN Propagate_zeroWins(ps, k + 1, st,
                     [acc EXCEPT !.status[parent] = WIN, !.q = Append(@, parent)])
             ELSE IF st = WIN
             THEN LET left == acc.remaining_children[parent] - 1
                      dec  == [acc EXCEPT !.remaining_children[parent] = left]
                  IN  IF left = 0
                      THEN Propagate_zeroWins(ps, k + 1, st,
                              [dec EXCEPT !.status[parent] = WIN, !.q = Append(@, parent)])
                      ELSE Propagate_zeroWins(ps, k + 1, st, dec)
             ELSE Propagate_zeroWins(ps, k + 1, st, acc)

RECURSIVE Propagate_decided(_, _, _, _)
\* Propagate without skipping the parents that already have a status.
Propagate_decided(ps, k, st, acc) ==
    IF k > Len(ps) THEN acc
    ELSE LET parent == ps[k]
         IN  IF st = LOSE
             THEN Propagate_decided(ps, k + 1, st,
                     [acc EXCEPT !.status[parent] = WIN, !.q = Append(@, parent)])
             ELSE IF st = WIN
             THEN LET left == acc.remaining_children[parent] - 1
                      dec  == [acc EXCEPT !.remaining_children[parent] = left]
                  IN  IF left = 0
                      THEN Propagate_decided(ps, k + 1, st,
                              [dec EXCEPT !.status[parent] = LOSE, !.q = Append(@, parent)])
                      ELSE Propagate_decided(ps, k + 1, st, dec)
             ELSE Propagate_decided(ps, k + 1, st, acc)

RECURSIVE Propagate(_, _, _, _)
\* The loop "for parent in parents.get(node, [])" for a popped node of
\* status st; acc carries status, remaining_children and q.
Propagate(ps, k, st, acc) ==
    IF k > Len(ps) THEN acc
    ELSE LET parent == ps[k]
         IN  IF acc.status[parent] # UNKNOWN THEN Propagate(ps, k + 1, st, acc)
             ELSE IF st = LOSE
             THEN Propagate(ps, k + 1, st,
                     [acc EXCEPT !.status[parent] = WIN, !.q = Append(@, parent)])
             ELSE IF st = WIN
             THEN LET left == acc.remaining_children[parent] - 1
                      dec  == [acc EXCEPT !.remaining_children[parent] = left]
                  IN  IF left = 0
                      THEN Propagate(ps, k + 1, st,
                              [dec EXCEPT !.status[parent] = LOSE, !.q = Append(@, parent)])
                      ELSE Propagate(ps, k + 1, st, dec)
             ELSE Propagate(ps, k + 1, st, acc)

\* One turn of "while q": pop a node and propagate its status to its parents.
ClassifyPop ==
    /\ phase = "classifying"
    /\ q # <<>>
    /\ LET node == Head(q)
           acc == Propagate(Ordered(parents(node), order), 1, status[node],
                            [status |-> status,
                             remaining_children |-> remaining_children,
                             q |-> Tail(q)])
       IN  /\ status' = acc.status
           /\ remaining_children' = acc.remaining_children
           /\ q' = acc.q
    /\ UNCHANGED <<rules, game, last, root_state, phase, bvars, all_nodes, order>>

\* MarkDraw that leaves the unreached nodes UNKNOWN.
MarkDraw_skip(st) == st

\* MarkDraw that counts the unreached nodes as lost.
MarkDraw_lose(st) == [n \in DOMAIN st |-> IF st[n] = UNKNOWN THEN LOSE ELSE st[n]]

\* classify_positions_graph: "Mark remaining UNKNOWN nodes as DRAW".
MarkDraw(st) == [n \in DOMAIN st |-> IF st[n] = UNKNOWN THEN DRAW ELSE st[n]]

\* classify_positions_graph after the queue drained: the rest is DRAW, and
\* a LoopNode takes the status of the node it points to.
ClassifyFinish ==
    /\ phase = "classifying"
    /\ q = <<>>
    /\ \A m \in all_nodes : isLoop(m) => nodes[m].points_to \in DOMAIN status
    /\ LET drawn == MarkDraw(status)
       IN  status' = [n \in DOMAIN status \cup {m \in all_nodes : isLoop(m)} |->
                         IF isLoop(n) THEN drawn[nodes[n].points_to] ELSE drawn[n]]
    /\ phase' = "done"
    /\ UNCHANGED <<rules, game, last, root_state, bvars, all_nodes, order,
                   remaining_children, q>>

Classify == ClassifyInit \/ ClassifyPop \/ ClassifyFinish

\* -------------------------------------------------------- best_moves_from
\* status_map.get(next_node, UNKNOWN)
next_status(n) == IF n \in DOMAIN status THEN status[n] ELSE UNKNOWN

\* best_moves_from returning every transition of the node.
best_moves_from_all(n) ==
    IF ~isStandard(n) THEN <<>>
    ELSE nodes[n].transitions

\* best_moves_from trying the buckets in the reverse order.
best_moves_from_reversed(n) ==
    IF ~isStandard(n) THEN <<>>
    ELSE LET isWinning(t) == next_status(t.node) = LOSE
             isDrawing(t) == next_status(t.node) = DRAW
             isOther(t) == ~isWinning(t) /\ ~isDrawing(t)
             winning_moves == SelectSeq(nodes[n].transitions, isWinning)
             drawing_moves == SelectSeq(nodes[n].transitions, isDrawing)
             other_moves == SelectSeq(nodes[n].transitions, isOther)
         IN  IF other_moves # <<>> THEN other_moves
             ELSE IF drawing_moves # <<>> THEN drawing_moves
             ELSE winning_moves

\* best_moves_from(node, status_map)
best_moves_from(n) ==
    IF ~isStandard(n) THEN <<>>
    ELSE LET isWinning(t) == next_status(t.node) = LOSE
             isDrawing(t) == next_status(t.node) = DRAW
             isOther(t) == ~isWinning(t) /\ ~isDrawing(t)
             winning_moves == SelectSeq(nodes[n].transitions, isWinning)
             drawing_moves == SelectSeq(nodes[n].transitions, isDrawing)
             other_moves == SelectSeq(nodes[n].transitions, isOther)
         IN  IF winning_moves # <<>> THEN winning_moves
             ELSE IF drawing_moves # <<>> THEN drawing_moves
             ELSE other_moves

Next == Build \/ Collect \/ Classify

Spec == Init /\ [][Next]_vars

\* ============================================ repeated-build specification
\* build_tree called again in the same process, on the same root state and
\* a rule set of the same threshold: the module global state_to_node and
\* the nodes it holds are as the earlier build left them.
Rerun ==
    /\ phase = "built"
    /\ run < MaxRuns
    /\ run' = run + 1
    /\ rules' \in {r \in RuleSets(MaxThreshold) : r.threshold = rules.threshold}
    /\ root_node' = 0
    /\ phase' = "start"
    /\ UNCHANGED <<game, last, root_state, nodes, state_to_node, stack, cvars>>

\* classify_positions_graph, the last loop, on a LoopNode whose target is
\* not a key of status: "status[node.points_to]" raises KeyError.
ClassifyKeyError ==
    /\ phase = "classifying"
    /\ q = <<>>
    /\ \E m \in all_nodes : isLoop(m) /\ nodes[m].points_to \notin DOMAIN status
    /\ status' = MarkDraw(status)
    /\ phase' = "KeyError"
    /\ UNCHANGED <<rules, game, last, root_state, bvars, all_nodes, order,
                   remaining_children, q>>

RepeatNext == Next \/ Rerun \/ ClassifyKeyError

RepeatSpec == Init /\ [][RepeatNext]_vars

\* ============================================ classifier-level specification
\* classify_positions_graph on node sets of the shape build_tree produces
\* for an arbitrary game: each Standard node has transitions to distinct
\* targets, each a WinNode of its own or a LoopNode to a Standard node.
\* kids[a] holds the targets of Standard node a; 0 stands for a WinNode.
GraphShapes == [1..MaxNodes -> SUBSET (0..MaxNodes)]

RECURSIVE EdgesFrom(_, _)
\* The transitions of all Standard nodes from a on, in creation order.
EdgesFrom(kids, a) ==
    IF a > MaxNodes THEN <<>>
    ELSE LET ks == Ordered(kids[a], "asc")
         IN  [k \in 1..Len(ks) |-> [from |-> a, to |-> ks[k]]] \o EdgesFrom(kids, a + 1)

AbstractState(a) == [position |-> a]
AbstractMove(a, b) == [move_type |-> "move", from |-> a, to |-> b]

\* The nodes of a shape: the Standard nodes first, then one WinNode or
\* LoopNode per transition.
GraphNodes(kids) ==
    LET E == EdgesFrom(kids, 1)
        ids(a) == SelectSeq([e \in 1..Len(E) |-> e], LAMBDA e : E[e].from = a)
    IN  [i \in 1..(MaxNodes + Len(E)) |->
            IF i <= MaxNodes
            THEN [kind |-> "Standard", state |-> AbstractState(i),
                  transitions |-> [k \in 1..Len(ids(i)) |->
                      [move |-> AbstractMove(i, E[ids(i)[k]].to),
                       node |-> MaxNodes + ids(i)[k]]]]
            ELSE IF E[i - MaxNodes].to = 0
                 THEN WinNode(AbstractState(0), "next_player")
                 ELSE LoopNode(E[i - MaxNodes].to)]

\* The rule set of main.
MainRules == [threshold |-> 5, modular |-> FALSE, split_rule |-> "restrictive"]

GraphInit ==
    /\ \E kids \in GraphShapes : nodes = GraphNodes(kids)
    /\ all_nodes = DOMAIN nodes
    /\ phase = "collected"
    /\ rules = MainRules
    /\ root_state = NoState
    /\ game = NoState
    /\ last = NoCall
    /\ state_to_node = Empty
    /\ stack = <<>>
    /\ root_node = 0
    /\ run = 1
    /\ order = "asc"
    /\ status = Empty
    /\ remaining_children = Empty
    /\ q = <<>>

ClassifySpec == GraphInit /\ [][Classify]_vars

\* ================================================================ claims
StandardIds == {n \in all_nodes : isStandard(n)}
WinIds      == {n \in all_nodes : isWin(n)}

\* ---- optimal play, over the states of the game (not over the nodes)
\* The states one legal move away.
Successors(s) ==
    IF is_terminal(s) THEN {}
    ELSE {p.state : p \in Range(generate_moves(s, rules))}

RECURSIVE Reachable(_, _)
\* The states reachable from a frontier by legal moves.
Reachable(frontier, seen) ==
    IF frontier = {} THEN seen
    ELSE LET new == (UNION {Successors(s) : s \in frontier}) \ seen
         IN  Reachable(new, seen \cup new)

RECURSIVE Forced(_, _, _)
\* The least sets (won, lost) over the universe U such that the mover of a
\* won state has a move into a lost state, and every move out of a lost
\* state leads into a won state; a terminal state is lost for its dead
\* mover.
Forced(U, won, lost) ==
    LET won2  == won \cup {s \in U : ~is_terminal(s) /\ Successors(s) \cap lost # {}}
        lost2 == lost \cup {s \in U : ~is_terminal(s) /\ Successors(s) # {}
                                        /\ Successors(s) \subseteq won}
    IN  IF won2 = won /\ lost2 = lost THEN [won |-> won, lost |-> lost]
        ELSE Forced(U, won2, lost2)

OptimalPlay ==
    LET U == Reachable({root_state}, {root_state})
    IN  Forced(U, {s \in U : is_terminal(s) /\ winner(s) = "curr_player"},
                  {s \in U : is_terminal(s) /\ winner(s) = "next_player"})

\* C1: after a build and a classification, every Standard node is WIN
\* exactly if the mover of its state can force a terminal state in which the
\* opponent is dead, LOSE exactly if the opponent can force that against the
\* mover, and DRAW in every other case.
C1_VerdictIsOptimalPlay ==
    phase = "done" =>
        LET opt == OptimalPlay
        IN  \A n \in StandardIds :
               /\ status[n] = WIN  <=> nodes[n].state \in opt.won
               /\ status[n] = LOSE <=> nodes[n].state \in opt.lost
               /\ status[n] = DRAW <=> nodes[n].state \notin (opt.won \cup opt.lost)

\* A classified graph that holds a WIN, a LOSE and a DRAW Standard node.
C1_Witness ==
    /\ phase = "done"
    /\ \E a, b, c \in StandardIds :
          status[a] = WIN /\ status[b] = LOSE /\ status[c] = DRAW

\* C2: after classification every Standard node and every Terminal node of
\* the node set is in the status map with one of WIN, LOSE, DRAW.
C2_StatusTotal ==
    phase = "done" =>
        \A n \in StandardIds \cup WinIds :
            n \in DOMAIN status /\ status[n] \in {WIN, LOSE, DRAW}

\* A classified graph with a Terminal node and a Standard node that no
\* propagation reached.
C2_Witness ==
    /\ phase = "done"
    /\ WinIds # {}
    /\ \E n \in StandardIds : status[n] = DRAW

\* C3: after classification a Standard node is WIN exactly if one of its
\* transitions leads (through a Loop node or directly) to a LOSE node.
C3_WinCharacterization ==
    phase = "done" =>
        \A n \in StandardIds :
            status[n] = WIN <=>
                \E k \in DOMAIN Children(n) : status[Children(n)[k]] = LOSE

\* A WIN node whose LOSE child is a Standard node reached through a Loop
\* node, next to a child that is not LOSE.
C3_Witness ==
    /\ phase = "done"
    /\ \E n \in StandardIds :
          /\ status[n] = WIN
          /\ \E k \in DOMAIN nodes[n].transitions :
                /\ isLoop(nodes[n].transitions[k].node)
                /\ status[Children(n)[k]] = LOSE
          /\ \E k \in DOMAIN Children(n) : status[Children(n)[k]] # LOSE

\* C4: after classification a node (a Loop node standing for the node it
\* references) is LOSE exactly if it has no transition or every transition
\* leads to a WIN node.
C4_LoseCharacterization ==
    phase = "done" =>
        \A n \in DOMAIN status :
            LET t == Target(n)
                ts == IF isStandard(t) THEN Children(t) ELSE <<>>
            IN  status[n] = LOSE <=>
                    \/ ts = <<>>
                    \/ \A k \in DOMAIN ts : status[ts[k]] = WIN

\* A LOSE Standard node with two transitions, both into WIN nodes.
C4_Witness ==
    /\ phase = "done"
    /\ \E n \in StandardIds :
          /\ status[n] = LOSE
          /\ Len(nodes[n].transitions) >= 2
          /\ \A k \in DOMAIN Children(n) : status[Children(n)[k]] = WIN

RECURSIVE Descendants(_, _)
\* The nodes reachable from a frontier along transitions, Loop nodes
\* resolved.
Descendants(frontier, seen) ==
    IF frontier = {} THEN seen
    ELSE LET new == (UNION {Range(Children(n)) : n \in {m \in frontier : isStandard(m)}}) \ seen
         IN  Descendants(new, seen \cup new)

C6_TerminalLoseParentWin ==
    phase = "done" =>
        /\ \A n \in WinIds :
              /\ is_dead(nodes[n].state.curr_player) \/ is_dead(nodes[n].state.next_player)
              /\ status[n] = LOSE
        /\ \A n \in StandardIds :
              /\ ~is_dead(nodes[n].state.curr_player)
              /\ ~is_dead(nodes[n].state.next_player)
              /\ (\E k \in DOMAIN Children(n) : isWin(Children(n)[k])) => status[n] = WIN

\* A Standard node with a Terminal child and a second child that is not
\* LOSE: it is WIN because of the Terminal child alone.
C6_Witness ==
    /\ phase = "done"
    /\ \E n \in StandardIds :
          /\ status[n] = WIN
          /\ \E k \in DOMAIN Children(n) : isWin(Children(n)[k])
          /\ \E k \in DOMAIN Children(n) :
                isStandard(Children(n)[k]) /\ status[Children(n)[k]] # LOSE

\* C7: graph construction terminates with a graph, for every rule set and
\* every initial state: the registry saturates, so the nested build_tree
\* calls never outgrow the interpreter's stack (the one way a build ends
\* without returning a node).
C7_BuildTerminates == phase # "RecursionError"

\* C8: under the standard rule a legal attack leaves the targeted hand at
\* target + source if that is below the threshold and at 0 otherwise, and
\* leaves the opponent's other hand alone.
C8_StandardAttack ==
    (last.called /\ last.ok /\ last.move.move_type = "attack" /\ ~rules.modular) =>
        LET me  == last.pre.curr_player
            opp == last.pre.next_player
            tgt == last.move.target_hand + 1
            v   == opp[tgt] + me[last.move.source_hand + 1]
            hit == IF v < rules.threshold THEN v ELSE 0
        IN  game.curr_player = Player(<<hit, opp[3 - tgt]>>)

\* Threshold 5, target hand 4, source hand 2: the hand dies.
C8_Witness ==
    /\ last.called /\ last.ok /\ last.move.move_type = "attack"
    /\ ~rules.modular /\ rules.threshold = 5
    /\ last.pre.next_player[last.move.target_hand + 1] = 4
    /\ last.pre.curr_player[last.move.source_hand + 1] = 2
    /\ game.curr_player[2] = 0

\* C9: under the modular rule, in every state the build reaches, an attack
\* kills the targeted hand only if target + source is the threshold; a
\* larger sum leaves the hand alive at sum mod threshold.
C9_ModularAttack ==
    rules.modular =>
        \A s \in DOMAIN state_to_node : \A i, j \in 0..1 :
            LET r == Apply(MoveAttack(i, j), s, rules)
                v == s.next_player[j + 1] + s.curr_player[i + 1]
                other == s.next_player[2 - j]
            IN  r.ok =>
                   IF v = rules.threshold
                   THEN r.state.curr_player = Player(<<0, other>>)
                   ELSE /\ v > rules.threshold =>
                              r.state.curr_player = Player(<<v % rules.threshold, other>>)
                        /\ \E w \in 1..v : r.state.curr_player = Player(<<w, other>>)

ValidRules(r) == r.threshold >= 1 /\ r.split_rule \in SplitRules

\* C11: a rule set with threshold < 1 or with a split-rule tag other than
\* restrictive, free, change, suicide is rejected at construction, so no
\* move application ever runs with such a rule set.
C11_InvalidRulesRejected ==
    last.called => ValidRules(rules)

\* The transitions of n that a best-move list has to hold: those to a LOSE
\* child if there is one, else those to a DRAW child if there is one, else
\* all of them.
BestIndices(n) ==
    LET ts == nodes[n].transitions
        losing == {k \in DOMAIN ts : status[ts[k].node] = LOSE}
        drawing == {k \in DOMAIN ts : status[ts[k].node] = DRAW}
    IN  IF losing # {} THEN losing
        ELSE IF drawing # {} THEN drawing
        ELSE DOMAIN ts

\* The state a transition leads to.
TargetState(t) == nodes[Target(t.node)].state

\* C12: for a Standard node best_moves_from returns exactly the transitions
\* to LOSE children if there is one, else exactly those to DRAW children if
\* there is one, else all transitions; the list keeps the order of the
\* node's transitions and holds no two entries with the same target state;
\* for a node that is not Standard it is empty.
C12_BestMoves ==
    phase = "done" =>
        \A n \in all_nodes :
            LET best == best_moves_from(n)
                ts == nodes[n].transitions
            IN  IF ~isStandard(n) THEN best = <<>>
                ELSE /\ Len(best) = Cardinality(BestIndices(n))
                     /\ \E pos \in [DOMAIN best -> BestIndices(n)] :
                            /\ \A i \in DOMAIN best : best[i] = ts[pos[i]]
                            /\ \A i, j \in DOMAIN best : i < j => pos[i] < pos[j]
                     /\ \A i, j \in DOMAIN best :
                            i # j => TargetState(best[i]) # TargetState(best[j])

\* A classified graph with a node whose best moves are some but not all of
\* its transitions, and a node whose best moves lead to DRAW children.
C12_Witness ==
    /\ phase = "done"
    /\ \E n \in StandardIds :
          /\ best_moves_from(n) # <<>>
          /\ Len(best_moves_from(n)) < Len(nodes[n].transitions)
    /\ \E n \in StandardIds :
          /\ best_moves_from(n) # <<>>
          /\ status[best_moves_from(n)[1].node] = DRAW

\* The nodes created so far that hold a state.
StateNodes == {n \in 1..Len(nodes) : ~isLoop(n)}

\* Hands in canonical order, and hands equal up to their order.
Canonical(h) == h[1] >= h[2]
SameHands(h, g) == h = g \/ h = <<g[2], g[1]>>

\* C13: hands are canonical, so Player((a,b)) and Player((b,a)) are equal
\* and a state is identified by its two canonical hands alone: every node
\* holds canonical hands, and two Standard nodes never hold states that
\* differ only in the order of a player's hands.
C13_CanonicalIdentity ==
    /\ \A n \in StateNodes :
          Canonical(nodes[n].state.curr_player) /\ Canonical(nodes[n].state.next_player)
    /\ \A n1, n2 \in StateNodes :
          /\ isStandard(n1) /\ isStandard(n2)
          /\ SameHands(nodes[n1].state.curr_player, nodes[n2].state.curr_player)
          /\ SameHands(nodes[n1].state.next_player, nodes[n2].state.next_player)
          => n1 = n2

\* A built graph where an attack left the attacked player's hands in
\* ascending order and the transition leads to the Standard node of the
\* state with those hands reordered.
C13_Witness ==
    /\ phase = "built"
    /\ \E p \in StateNodes :
          /\ isStandard(p)
          /\ \E k \in DOMAIN nodes[p].transitions :
                LET t == nodes[p].transitions[k]
                    opp == nodes[p].state.next_player
                    me == nodes[p].state.curr_player
                    raw == [opp EXCEPT ![t.move.target_hand + 1] =
                               ThresholdRule(@ + me[t.move.source_hand + 1], rules)]
                IN  /\ t.move.move_type = "attack"
                    /\ raw[1] < raw[2]
                    /\ isStandard(Target(t.node))
                    /\ TargetState(t).curr_player = <<raw[2], raw[1]>>

\* C14: during and after a build there is at most one Standard node per
\* state: every Standard node is the one registered under its state from
\* its creation on, before any of its successors is explored, and a later
\* arrival at the state gives a Loop node that refers to the registered
\* node.
C14_OneStandardPerState ==
    /\ \A n1, n2 \in StateNodes :
          isStandard(n1) /\ isStandard(n2) /\ nodes[n1].state = nodes[n2].state
          => n1 = n2
    /\ \A n \in StateNodes :
          isStandard(n) =>
              /\ nodes[n].state \in DOMAIN state_to_node
              /\ state_to_node[nodes[n].state] = n
    /\ \A n \in 1..Len(nodes) :
          isLoop(n) =>
              /\ isStandard(nodes[n].points_to)
              /\ state_to_node[nodes[nodes[n].points_to].state] = nodes[n].points_to

\* A build in progress that arrived again at the state of a node whose
\* successors are still being explored, and made a Loop node for it.
C14_Witness ==
    /\ phase = "building"
    /\ \E n \in 1..Len(nodes), d \in DOMAIN stack :
          /\ isLoop(n)
          /\ nodes[n].points_to = stack[d].node
          /\ stack[d].k <= Len(generate_moves(nodes[stack[d].node].state, rules))

\* C15: from an initial state with all hands in 0 .. threshold - 1, every
\* hand of every state the build reaches is in 0 .. threshold - 1, under
\* every rule set.
C15_HandsBelowThreshold ==
    \A n \in StateNodes :
        \A h \in {nodes[n].state.curr_player, nodes[n].state.next_player} :
            h[1] \in 0..(rules.threshold - 1) /\ h[2] \in 0..(rules.threshold - 1)

\* A split whose canonical result is the mover's current hands.
NoOpSplit(move, me) ==
    move.move_type = "split" /\ Player(move.result_hands) = me

\* The partitions of a total into an unordered pair.
Partitions(total) ==
    {h \in (0..total) \X (0..total) : h[1] + h[2] = total /\ h[1] >= h[2]}

\* C16: under the free, change and suicide rules the move list of a state
\* holds no no-op split, and the split candidates are exactly the
\* partitions of the mover's total other than the mover's current hands.
C16_NoNoOpSplit ==
    rules.split_rule # "restrictive" =>
        \A n \in StateNodes :
            isStandard(n) =>
                LET s == nodes[n].state
                    me == s.curr_player
                    moves == generate_moves(s, rules)
                    candidates == generate_possible_moves(s, rules)
                IN  /\ \A k \in DOMAIN moves : ~NoOpSplit(moves[k].move, me)
                    /\ {Player(candidates[k].result_hands) :
                            k \in {i \in DOMAIN candidates :
                                      candidates[i].move_type = "split"}}
                         = Partitions(sum(me)) \ {me}

\* C17: the registry carries nothing from one build to the next: the build
\* of a non-terminal root state returns a Standard node, also when it is
\* not the first build of the process, and every Loop node collected from
\* the root refers to a node collected from that root.
C17_FreshRegistryPerBuild ==
    phase = "built" =>
        /\ ~is_terminal(root_state) => isStandard(root_node)
        /\ \A n \in collect_all_nodes(root_node, {}) :
              isLoop(n) => nodes[n].points_to \in collect_all_nodes(root_node, {})

\* The nodes a node's transitions hold, Loop nodes not resolved.
DirectChildren(n) ==
    IF isStandard(n) THEN {nodes[n].transitions[k].node : k \in DOMAIN nodes[n].transitions}
    ELSE {}

RECURSIVE DirectDescendants(_, _)
\* The nodes reachable from a frontier along transitions without following
\* Loop references.
DirectDescendants(frontier, seen) ==
    IF frontier = {} THEN seen
    ELSE LET new == (UNION {DirectChildren(n) : n \in frontier}) \ seen
         IN  DirectDescendants(new, seen \cup new)

\* The transitions that hold node n.
DirectParents(n) ==
    UNION {{<<p, k>> : k \in {i \in DOMAIN nodes[p].transitions :
                                 nodes[p].transitions[i].node = n}} :
           p \in {m \in 1..Len(nodes) : isStandard(m)}}

\* C18: in the built graph the transitions, Loop references not followed,
\* close no cycle: no node is reachable from its own children, the root is
\* the child of no transition and every other Standard node the child of
\* exactly one, and the traversal from the root that does not follow Loop
\* references reaches every node.
C18_DirectEdgesFormTree ==
    phase = "built" =>
        /\ \A n \in 1..Len(nodes) :
              n \notin DirectDescendants(DirectChildren(n), DirectChildren(n))
        /\ DirectParents(root_node) = {}
        /\ \A n \in 1..Len(nodes) :
              isStandard(n) /\ n # root_node => Cardinality(DirectParents(n)) = 1
        /\ collect_all_nodes(root_node, {}) = 1..Len(nodes)

\* A built graph with a cycle of the game: a Loop node below a Standard
\* node refers back to that node, which is not the root.
C18_Witness ==
    /\ phase = "built"
    /\ \E n \in 1..Len(nodes), l \in 1..Len(nodes) :
          /\ isStandard(n)
          /\ n # root_node
          /\ isLoop(l)
          /\ nodes[l].points_to = n
          /\ l \in DirectDescendants(DirectChildren(n), DirectChildren(n))

\* Move.apply was called on a non-terminal state and returned a state.
MovedFromLive == last.called /\ last.ok /\ ~is_terminal(last.pre)

\* C19: a move from a non-terminal state never leaves the player who is
\* not to move next dead, so the state it gives never has both players
\* dead, and if it is terminal the player to move is the dead one and the
\* other player is alive.
C19_OnlyMoverToBeDies ==
    MovedFromLive =>
        /\ ~is_dead(game.next_player)
        /\ is_terminal(game) => is_dead(game.curr_player) /\ winner(game) = "next_player"

\* An attack on a player's last hand gave a terminal state.
C19_Witness ==
    /\ MovedFromLive
    /\ last.move.move_type = "attack"
    /\ is_terminal(game)

\* C20: every move swaps the roles and changes only what it is about: an
\* attack leaves the attacker's hands as the hands of the player not to
\* move and the untargeted hand of the attacked player as it was; a split
\* leaves the opponent's hands as the hands of the player to move and keeps
\* the splitter's total; a pass leaves both players' hands and swaps them.
C20_MovesSwapRoles ==
    last.called /\ last.ok =>
        LET me == last.pre.curr_player
            opp == last.pre.next_player
        IN  CASE last.move.move_type = "attack" ->
                   /\ game.next_player = me
                   /\ opp[2 - last.move.target_hand] \in {game.curr_player[1], game.curr_player[2]}
              [] last.move.move_type = "split" ->
                   /\ game.curr_player = opp
                   /\ sum(game.next_player) = sum(me)
              [] last.move.move_type = "pass" ->
                   /\ game.curr_player = opp
                   /\ game.next_player = me

\* A split that changed the splitter's hands, with different hands for the
\* two players before it.
C20_Witness ==
    /\ last.called /\ last.ok
    /\ last.move.move_type = "split"
    /\ last.pre.curr_player # last.pre.next_player
    /\ game.next_player # last.pre.curr_player
    /\ game.curr_player = last.pre.next_player

\* An attack with hand indices 0 or 1 from a live hand on a live hand.
LegalAttack(move, s) ==
    /\ move.source_hand \in {0, 1}
    /\ move.target_hand \in {0, 1}
    /\ s.curr_player[move.source_hand + 1] > 0
    /\ s.next_player[move.target_hand + 1] > 0

\* C21: every attack transition in the graph is legal in its parent state
\* (indices 0 or 1, source hand and targeted hand above 0) and is one of
\* the generated candidates; a candidate that fails validation gives no
\* transition.
C21_AttackTransitionsLegal ==
    \A p \in StateNodes :
        isStandard(p) =>
            \A k \in DOMAIN nodes[p].transitions :
                LET move == nodes[p].transitions[k].move
                IN  /\ move \in Range(generate_possible_moves(nodes[p].state, rules))
                    /\ move.move_type = "attack" => LegalAttack(move, nodes[p].state)

\* A built graph with a node whose mover has a dead hand: the attacks from
\* that hand were candidates, and the node has attack transitions from the
\* live hand only.
C21_Witness ==
    /\ phase = "built"
    /\ \E p \in StateNodes :
          /\ isStandard(p)
          /\ nodes[p].state.curr_player[2] = 0
          /\ MoveAttack(1, 0) \in Range(generate_possible_moves(nodes[p].state, rules))
          /\ \E k \in DOMAIN nodes[p].transitions :
                nodes[p].transitions[k].move.move_type = "attack"
          /\ \A k \in DOMAIN nodes[p].transitions :
                nodes[p].transitions[k].move.move_type = "attack"
                => nodes[p].transitions[k].move.source_hand = 0

\* The candidates of a state that Move.apply accepts and that give a state
\* no earlier accepted candidate gives.
FirstOfState(s) ==
    LET candidates == generate_possible_moves(s, rules)
        legal == {k \in DOMAIN candidates : Apply(candidates[k], s, rules).ok}
    IN  {k \in legal :
            \A j \in legal :
                j < k => Apply(candidates[j], s, rules).state # Apply(candidates[k], s, rules).state}

\* The i-th smallest number of a set of numbers.
Nth(K, i) == CHOOSE k \in K : Cardinality({j \in K : j < k}) = i - 1

\* C22: in a built graph no two transitions of a Standard node lead to the
\* same state: of the legal moves that give equal states only the first in
\* generation order (attacks (0,0), (0,1), (1,0), (1,1), then splits) has a
\* transition, and the transitions are in generation order.
C22_OneTransitionPerState ==
    phase = "built" =>
        \A p \in StateNodes :
            isStandard(p) =>
                LET s == nodes[p].state
                    ts == nodes[p].transitions
                    candidates == generate_possible_moves(s, rules)
                    kept == FirstOfState(s)
                IN  /\ SubSeq(candidates, 1, 4) =
                          <<MoveAttack(0, 0), MoveAttack(0, 1), MoveAttack(1, 0), MoveAttack(1, 1)>>
                    /\ \A k \in 5..Len(candidates) : candidates[k].move_type = "split"
                    /\ \A i, j \in DOMAIN ts :
                          i # j => TargetState(ts[i]) # TargetState(ts[j])
                    /\ Len(ts) = Cardinality(kept)
                    /\ \A i \in DOMAIN ts :
                          /\ ts[i].move = candidates[Nth(kept, i)]
                          /\ TargetState(ts[i]) = Apply(ts[i].move, s, rules).state

\* A built graph with a node where a legal move has no transition because
\* an earlier move gives the same state.
C22_Witness ==
    /\ phase = "built"
    /\ \E p \in StateNodes :
          /\ isStandard(p)
          /\ LET s == nodes[p].state
                 candidates == generate_possible_moves(s, rules)
             IN  \E k \in DOMAIN candidates :
                    /\ Apply(candidates[k], s, rules).ok
                    /\ k \notin FirstOfState(s)
                    /\ \A i \in DOMAIN nodes[p].transitions :
                          nodes[p].transitions[i].move # candidates[k]

\* The work still ahead of the classifier: two for every node without a
\* status and one for every node on the queue.
Remaining(st, queue) ==
    2 * Cardinality({n \in DOMAIN st : st[n] = UNKNOWN}) + Len(queue)

\* One step of the classifier keeps the three promises of C23.
ClassifyStepOk ==
    /\ \A n \in DOMAIN status :
          status[n] \in {WIN, LOSE} => status'[n] = status[n]
    /\ \A n \in DOMAIN status :
          status[n] # DRAW /\ status'[n] = DRAW => q = <<>>
    /\ \A i, j \in DOMAIN q' : i # j => q'[i] # q'[j]
    /\ \A i \in DOMAIN q' : status'[q'[i]] \in {WIN, LOSE}
    /\ phase = "classifying" /\ q # <<>> =>
          /\ Len(q') >= Len(q) - 1
          /\ SubSeq(q', 1, Len(q) - 1) = Tail(q)
          /\ \A i \in Len(q)..Len(q') : status[q'[i]] = UNKNOWN
          /\ Remaining(status', q') < Remaining(status, q)

\* C23: classification terminates: every turn of the queue loop reduces
\* the work that remains, a node is put on the queue only when its status
\* goes from UNKNOWN to WIN or LOSE and so at most once, a WIN or LOSE
\* status never changes, and DRAW is given only once the queue is empty.
C23_ClassifyTerminates == [][ClassifyStepOk]_vars

\* A run of the classifier that put a Standard node with transitions on
\* the queue and left another node without a status.
C23_Witness ==
    /\ phase = "classifying"
    /\ \E i \in DOMAIN q : isStandard(q[i]) /\ nodes[q[i]].transitions # <<>>
    /\ \E n \in DOMAIN status : status[n] = UNKNOWN

\* C24: every Standard node of a built graph has a transition, because its
\* state has a legal attack; so no Standard node is a seed of the
\* classifier, and a Standard node is LOSE only with all its children WIN.
C24_StandardHasTransition ==
    phase \in {"built", "collected", "classifying", "done"} =>
        \A n \in StateNodes :
            isStandard(n) =>
                /\ \E i \in {0, 1}, j \in {0, 1} : LegalAttack(MoveAttack(i, j), nodes[n].state)
                /\ nodes[n].transitions # <<>>
                /\ ~isSeed(n)
                /\ phase = "done" /\ status[n] = LOSE =>
                      \A k \in DOMAIN Children(n) : status[Children(n)[k]] = WIN

\* A classified graph with a LOSE Standard node: it has transitions and
\* all of them lead to WIN nodes, one of them through a Loop node.
C24_Witness ==
    /\ phase = "done"
    /\ \E n \in StateNodes :
          /\ isStandard(n)
          /\ status[n] = LOSE
          /\ nodes[n].transitions # <<>>
          /\ \E k \in DOMAIN nodes[n].transitions : isLoop(nodes[n].transitions[k].node)
          /\ \A k \in DOMAIN Children(n) : status[Children(n)[k]] = WIN

\* The statuses of the children the best moves of n lead to.
BestStatuses(n) ==
    {status[best_moves_from(n)[i].node] : i \in DOMAIN best_moves_from(n)}

\* C25: in a classified graph the best moves of a Standard node keep its
\* verdict: the list is not empty, from a WIN node it leads to LOSE
\* children only, from a DRAW node to DRAW children only, and only from a
\* LOSE node to a WIN child.
C25_BestMovesKeepVerdict ==
    phase = "done" =>
        \A n \in StandardIds :
            /\ best_moves_from(n) # <<>>
            /\ status[n] = WIN => BestStatuses(n) = {LOSE}
            /\ status[n] = DRAW => BestStatuses(n) = {DRAW}
            /\ WIN \in BestStatuses(n) => status[n] = LOSE

\* A classified graph with a WIN node that also has a child that is not
\* LOSE, a DRAW node that also has a WIN child, and a LOSE node.
C25_Witness ==
    /\ phase = "done"
    /\ \E n \in StandardIds :
          /\ status[n] = WIN
          /\ \E k \in DOMAIN Children(n) : status[Children(n)[k]] # LOSE
    /\ \E n \in StandardIds :
          /\ status[n] = DRAW
          /\ \E k \in DOMAIN Children(n) : status[Children(n)[k]] = WIN
    /\ \E n \in StandardIds : status[n] = LOSE

====
